---- MODULE Spec2Model ----
(***************************************************************************)
(* A model of the GoxLang recursive-descent parser (src/v3/GOX_parser.py): *)
(* the Parser class (cursor, expect, the grammar rules, to_json and the    *)
(* serializer) and the command-line driver at the bottom of the file.      *)
(*                                                                         *)
(* Conventions.                                                            *)
(*  - A token is a record [type, value, lineno]; values are the lexemes.   *)
(*  - Python's None is NoneNode where a node is expected, NoneStr where a  *)
(*    string is expected and JsonNull in a serialized document.            *)
(*  - The parser object is threaded through the grammar rules as a record  *)
(*    p = [pos, errors, exc, hang]: pos is Parser.pos (0-based), errors is *)
(*    the error sink's list, exc says that a Python exception is           *)
(*    propagating (an attribute access on None), hang says that a loop of  *)
(*    the parser iterates without moving the cursor (it would never exit). *)
(*    Parser.current_token is always tokens[pos] or None (lines 15, 17-22) *)
(*    and is computed from pos by CurrentToken.                            *)
(*  - Every rule returns [p |-> parser after the call, node |-> result].   *)
(*  - A diagnostic is [message, line]; line EndOfFile stands for the       *)
(*    "End of file" marker (token lines are positive).                     *)
(***************************************************************************)
EXTENDS Integers, Sequences, FiniteSets

VARIABLES tokens, pos, errors, statements, pc, caller, ast, json_ast, doc, exitcode

vars == <<tokens, pos, errors, statements, pc, caller, ast, json_ast, doc, exitcode>>

(***************************************************************************)
(* Python values                                                           *)
(***************************************************************************)
NoneStr == "<None>"

NoneNode == [cls |-> "NoneType"]

JsonNull == [null |-> TRUE]

EndOfFile == 0

IsNone(node) == node.cls = "NoneType"

\* int(token.value) on the digit strings the inputs use
IntOf(s) ==
  CASE s = "0" -> 0 [] s = "1" -> 1 [] s = "2" -> 2 [] s = "3" -> 3
    [] s = "8" -> 8 [] s = "9" -> 9 [] OTHER -> 7

\* float(token.value): a float is kept as the pair (numerator, denominator)
FloatOf(s) ==
  CASE s = "2.5" -> [num |-> 5, den |-> 2]
    [] s = "0.5" -> [num |-> 1, den |-> 2]
    [] OTHER -> [num |-> 1, den |-> 1]

\* str.lower() on the boolean lexemes
Lower(s) ==
  CASE s = "TRUE" -> "true" [] s = "True" -> "true"
    [] s = "FALSE" -> "false" [] s = "False" -> "false"
    [] OTHER -> s

(***************************************************************************)
(* AST nodes (GOX_AST_nodes): plain data carriers                          *)
(***************************************************************************)
Program(stmts) == [cls |-> "Program", statements |-> stmts]

Integer(v) == [cls |-> "Integer", value |-> v]

Float(v) == [cls |-> "Float", value |-> v]

Boolean(v) == [cls |-> "Boolean", value |-> v]

String(v) == [cls |-> "String", value |-> v]

BinOp(op, left, right) == [cls |-> "BinOp", op |-> op, left |-> left, right |-> right]

UnaryOp(op, operand) == [cls |-> "UnaryOp", op |-> op, operand |-> operand]

Location(name) == [cls |-> "Location", name |-> name]

FunctionCall(name, args) == [cls |-> "FunctionCall", name |-> name, args |-> args]

PrintStmt(expr) == [cls |-> "Print", expr |-> expr]

Assignment(location, expr) == [cls |-> "Assignment", location |-> location, expr |-> expr]

If(test, consequence, alternative) ==
  [cls |-> "If", test |-> test, consequence |-> consequence, alternative |-> alternative]

While(test, body) == [cls |-> "While", test |-> test, body |-> body]

ConstantDecl(name, value) == [cls |-> "ConstantDecl", name |-> name, value |-> value]

VariableDecl(name, var_type, value) ==
  [cls |-> "VariableDecl", name |-> name, var_type |-> var_type, value |-> value]

FunctionDecl(name, params, return_type, body) ==
  [cls |-> "FunctionDecl", name |-> name, params |-> params,
   return_type |-> return_type, body |-> body]

Return(expr) == [cls |-> "Return", expr |-> expr]

Parameter(name, param_type) == [cls |-> "Parameter", name |-> name, param_type |-> param_type]

ImportDecl(module_name) == [cls |-> "ImportDecl", module_name |-> module_name]

(***************************************************************************)
(* Error sink (GOX_error_handler.ErrorHandler)                             *)
(***************************************************************************)
add_error(errs, message, line) == Append(errs, [message |-> message, line |-> line])

has_errors(errs) == Len(errs) > 0

(***************************************************************************)
(* Parser: cursor                                                          *)
(***************************************************************************)
Ret(p, node) == [p |-> p, node |-> node]

Dead(p) == p.exc \/ p.hang

Raise(p) == Ret([p EXCEPT !.exc = TRUE], NoneNode)

\* the result of "r = call; K(r)", given as { K(r) : r \in {call} }: the call
\* is made once
Bind(results) == CHOOSE result \in results : TRUE

\* "self.current_token" is not None
HasCurrent(p) == p.pos < Len(tokens)

\* self.current_token, read only where HasCurrent(p)
CurrentToken(p) == tokens[p.pos + 1]

\* Parser.advance
advance(p) == IF Dead(p) THEN p ELSE [p EXCEPT !.pos = @ + 1]

\* PeekIs looking one token too far
PeekIs_too_far(p, offset, token_type) ==
  /\ p.pos + offset + 1 < Len(tokens)
  /\ tokens[p.pos + offset + 2].type = token_type

\* "self.peek() and self.peek().type == token_type"
PeekIs(p, offset, token_type) ==
  /\ p.pos + offset < Len(tokens)
  /\ tokens[p.pos + offset + 1].type = token_type

\* "self.current_token and self.current_token.type == token_type"
CurrentIs(p, token_type) == HasCurrent(p) /\ CurrentToken(p).type = token_type

CurrentIn(p, types) == HasCurrent(p) /\ CurrentToken(p).type \in types

\* expect recording a diagnostic only in an empty error sink
expect_first_only(p, token_type, err_msg) ==
  IF Dead(p) THEN [p |-> p, ok |-> FALSE, token |-> NoneNode]
  ELSE IF CurrentIs(p, token_type)
    THEN [p |-> advance(p), ok |-> TRUE, token |-> CurrentToken(p)]
  ELSE LET err == IF err_msg = NoneStr THEN "Expected " \o token_type ELSE err_msg
           line == IF HasCurrent(p) THEN CurrentToken(p).lineno ELSE EndOfFile
       IN [p |-> IF has_errors(p.errors) THEN p
                 ELSE [p EXCEPT !.errors = add_error(@, err, line)],
           ok |-> FALSE, token |-> NoneNode]

\* expect skipping the token it did not expect
expect_skips_on_failure(p, token_type, err_msg) ==
  IF Dead(p) THEN [p |-> p, ok |-> FALSE, token |-> NoneNode]
  ELSE IF CurrentIs(p, token_type)
    THEN [p |-> advance(p), ok |-> TRUE, token |-> CurrentToken(p)]
  ELSE LET err == IF err_msg = NoneStr THEN "Expected " \o token_type ELSE err_msg
           line == IF HasCurrent(p) THEN CurrentToken(p).lineno ELSE EndOfFile
       IN [p |-> advance([p EXCEPT !.errors = add_error(@, err, line)]),
           ok |-> FALSE, token |-> NoneNode]

\* Parser.expect: [p, ok, token]
expect(p, token_type, err_msg) ==
  IF Dead(p) THEN [p |-> p, ok |-> FALSE, token |-> NoneNode]
  ELSE IF CurrentIs(p, token_type)
    THEN [p |-> advance(p), ok |-> TRUE, token |-> CurrentToken(p)]
  ELSE LET err == IF err_msg = NoneStr THEN "Expected " \o token_type ELSE err_msg
           line == IF HasCurrent(p) THEN CurrentToken(p).lineno ELSE EndOfFile
       IN [p |-> [p EXCEPT !.errors = add_error(@, err, line)],
           ok |-> FALSE, token |-> NoneNode]

(***************************************************************************)
(* Parser: expressions                                                     *)
(*                                                                         *)
(* The result of a call of a grammar rule is bound once, as the argument   *)
(* of a local operator that stands for the statements after the call.      *)
(***************************************************************************)
RECURSIVE parse_expression(_), parse_logic_or(_), logic_or_loop(_, _, _, _),
          parse_logic_and(_), logic_and_loop(_, _, _, _),
          parse_comparison(_), comparison_loop(_, _, _, _),
          parse_term(_), term_loop(_, _, _, _),
          parse_factor(_), factor_loop(_, _, _, _),
          parse_unary(_), parse_primary(_), call_args(_), call_args_loop(_, _),
          parse_statement(_), block_loop(_, _)

ComparisonOps == {"LT", "GT", "LE", "GE", "EQ", "NE"}

TermOps == {"PLUS", "MINUS"}

\* the multiplicative layer taking '+' too
FactorOps_with_plus == {"TIMES", "DIVIDE", "MOD", "INT_DIV", "PLUS"}

FactorOps == {"TIMES", "DIVIDE", "MOD", "INT_DIV"}

UnaryOps == {"PLUS", "MINUS", "NOT", "DEREF"}

parse_expression(p) == parse_logic_or(p)

(***************************************************************************)
(* A binary layer "node = operand(); while op: advance; right = operand(); *)
(* node = BinOp(op, node, right)" is written as one loop that parses an    *)
(* operand, joins it to the left operand met so far (if any) and goes on   *)
(* while an operator of the layer follows: first says that no left operand *)
(* exists yet.                                                             *)
(***************************************************************************)
logic_or_loop(p, first, left, op) ==
  LET Operand(r) ==
        LET node == IF first THEN r.node ELSE BinOp(op, left, r.node) IN
        IF ~Dead(r.p) /\ CurrentIs(r.p, "LOR")
          THEN logic_or_loop(advance(r.p), FALSE, node, CurrentToken(r.p).value)
        ELSE Ret(r.p, node)
  IN Bind({ Operand(r) : r \in {parse_logic_and(p)} })

parse_logic_or(p) == logic_or_loop(p, TRUE, NoneNode, NoneStr)

logic_and_loop(p, first, left, op) ==
  LET Operand(r) ==
        LET node == IF first THEN r.node ELSE BinOp(op, left, r.node) IN
        IF ~Dead(r.p) /\ CurrentIs(r.p, "LAND")
          THEN logic_and_loop(advance(r.p), FALSE, node, CurrentToken(r.p).value)
        ELSE Ret(r.p, node)
  IN Bind({ Operand(r) : r \in {parse_comparison(p)} })

parse_logic_and(p) == logic_and_loop(p, TRUE, NoneNode, NoneStr)

comparison_loop(p, first, left, op) ==
  LET Operand(r) ==
        LET node == IF first THEN r.node ELSE BinOp(op, left, r.node) IN
        IF ~Dead(r.p) /\ CurrentIn(r.p, ComparisonOps)
          THEN comparison_loop(advance(r.p), FALSE, node, CurrentToken(r.p).value)
        ELSE Ret(r.p, node)
  IN Bind({ Operand(r) : r \in {parse_term(p)} })

parse_comparison(p) == comparison_loop(p, TRUE, NoneNode, NoneStr)

\* the additive layer grouping to the right: factor (op term)?
term_loop_right_assoc(p, first, left, op) ==
  LET Operand(r) ==
        IF ~Dead(r.p) /\ CurrentIn(r.p, TermOps)
          THEN LET Rest(s) == Ret(s.p, BinOp(CurrentToken(r.p).value, r.node, s.node))
               IN Bind({ Rest(s) : s \in {term_loop(advance(r.p), TRUE, NoneNode, NoneStr)} })
        ELSE Ret(r.p, r.node)
  IN Bind({ Operand(r) : r \in {parse_factor(p)} })

term_loop(p, first, left, op) ==
  LET Operand(r) ==
        LET node == IF first THEN r.node ELSE BinOp(op, left, r.node) IN
        IF ~Dead(r.p) /\ CurrentIn(r.p, TermOps)
          THEN term_loop(advance(r.p), FALSE, node, CurrentToken(r.p).value)
        ELSE Ret(r.p, node)
  IN Bind({ Operand(r) : r \in {parse_factor(p)} })

parse_term(p) == term_loop(p, TRUE, NoneNode, NoneStr)

factor_loop(p, first, left, op) ==
  LET Operand(r) ==
        LET node == IF first THEN r.node ELSE BinOp(op, left, r.node) IN
        IF ~Dead(r.p) /\ CurrentIn(r.p, FactorOps)
          THEN factor_loop(advance(r.p), FALSE, node, CurrentToken(r.p).value)
        ELSE Ret(r.p, node)
  IN Bind({ Operand(r) : r \in {parse_unary(p)} })

parse_factor(p) == factor_loop(p, TRUE, NoneNode, NoneStr)

parse_unary(p) ==
  IF Dead(p) THEN Ret(p, NoneNode)
  ELSE LET unary == CurrentIn(p, UnaryOps)
           Operand(r) ==
             IF unary THEN Ret(r.p, UnaryOp(CurrentToken(p).value, r.node)) ELSE r
       IN Bind({ Operand(r) : r \in {parse_primary(IF unary THEN advance(p) ELSE p)} })

\* the "while ... COMMA" loop of an argument list; acc is args
call_args_loop(p, acc) ==
  IF Dead(p) THEN [p |-> p, nodes |-> acc]
  ELSE IF CurrentIs(p, "COMMA")
    THEN LET Arg(r) == call_args_loop(r.p, Append(acc, r.node))
         IN Bind({ Arg(r) : r \in {parse_expression(advance(p))} })
  ELSE [p |-> p, nodes |-> acc]

\* the argument list after the consumed LPAREN, up to (not including) RPAREN:
\* "if self.current_token.type != 'RPAREN'" reads .type of None at end of input
call_args(p) ==
  IF Dead(p) THEN [p |-> p, nodes |-> <<>>]
  ELSE IF ~HasCurrent(p) THEN [p |-> Raise(p).p, nodes |-> <<>>]
  ELSE IF CurrentToken(p).type # "RPAREN"
    THEN LET Arg(r) == call_args_loop(r.p, <<r.node>>)
         IN Bind({ Arg(r) : r \in {parse_expression(p)} })
  ELSE [p |-> p, nodes |-> <<>>]

parse_primary(p) ==
  IF Dead(p) THEN Ret(p, NoneNode)
  ELSE IF ~HasCurrent(p) THEN Raise(p)
  ELSE LET token == CurrentToken(p) IN
    CASE token.type = "INTEGER" -> Ret(advance(p), Integer(IntOf(token.value)))
      [] token.type = "FLOAT" -> Ret(advance(p), Float(FloatOf(token.value)))
      [] token.type = "LPAREN" ->
           LET Close(r) ==
                 Ret(expect(r.p, "RPAREN", "Missing closing parenthesis").p, r.node)
           IN Bind({ Close(r) : r \in {parse_expression(advance(p))} })
      [] token.type = "ID" ->
           IF CurrentIs(advance(p), "LPAREN")
             THEN LET Close(a) ==
                        Ret(expect(a.p, "RPAREN", "Expected ')' after function arguments").p,
                            FunctionCall(token.value, a.nodes))
                  IN Bind({ Close(r) : r \in {call_args(advance(advance(p)))} })
           ELSE Ret(advance(p), Location(token.value))
      [] token.type \in {"TRUE", "FALSE"} ->
           Ret(advance(p), Boolean(Lower(token.value) = "true"))
      [] token.type = "STRING" -> Ret(advance(p), String(token.value))
      [] OTHER ->
           Ret(advance([p EXCEPT !.errors = add_error(@, "Invalid expression", token.lineno)]),
               NoneNode)

(***************************************************************************)
(* Parser: statements                                                      *)
(***************************************************************************)
parse_location(p) ==
  IF Dead(p) THEN Ret(p, NoneNode)
  ELSE IF ~HasCurrent(p) THEN Raise(p)
  ELSE Ret(expect(p, "ID", NoneStr).p, Location(CurrentToken(p).value))

parse_print(p) ==
  LET Semi(r) ==
        Ret(expect(r.p, "SEMI", "Missing ';' after print statement").p, PrintStmt(r.node))
  IN Bind({ Semi(r) : r \in {parse_expression(expect(p, "PRINT", NoneStr).p)} })

parse_assignment(p) ==
  LET location == parse_location(p)
      Semi(r) ==
        Ret(expect(r.p, "SEMI", "Missing ';' after assignment").p,
            Assignment(location.node, r.node))
  IN Bind({ Semi(r) :
              r \in {parse_expression(
                       expect(location.p, "ASSIGN", "Missing '=' in assignment").p)} })

\* "{ statement* }" after a consumed or missing LBRACE: the block's loop, then
\* the expect of its RBRACE
parse_block(p, missing_rbrace) ==
  LET Close(b) == [p |-> expect(b.p, "RBRACE", missing_rbrace).p, nodes |-> b.nodes]
  IN Bind({ Close(r) : r \in {block_loop(p, <<>>)} })

\* parse_if lines 216-222: the optional else block
parse_else(p) ==
  IF ~Dead(p) /\ CurrentIs(p, "ELSE")
    THEN parse_block(expect(advance(p), "LBRACE", "Missing '{' after else").p,
                     "Missing '}' at the end of else block")
  ELSE [p |-> p, nodes |-> <<>>]

parse_if(p) ==
  LET Test(t) ==
        LET Consequence(c) ==
              LET Alternative(a) == Ret(a.p, If(t.node, c.nodes, a.nodes))
              IN Bind({ Alternative(r) : r \in {parse_else(c.p)} })
        IN Bind({ Consequence(r) :
                    r \in {parse_block(
                             expect(t.p, "LBRACE", "Missing '{' after if condition").p,
                             "Missing '}' at the end of if block")} })
  IN Bind({ Test(r) : r \in {parse_expression(expect(p, "IF", NoneStr).p)} })

parse_while(p) ==
  LET Test(t) ==
        LET Body(b) == Ret(b.p, While(t.node, b.nodes))
        IN Bind({ Body(r) :
                    r \in {parse_block(
                             expect(t.p, "LBRACE", "Missing '{' after while condition").p,
                             "Missing '}' at the end of while block")} })
  IN Bind({ Test(r) : r \in {parse_expression(expect(p, "WHILE", NoneStr).p)} })

\* parse_declaration lines 241-245: the optional declared type
decl_type(p) ==
  IF ~Dead(p) /\ CurrentIs(p, "ID")
    THEN [p |-> advance(p), var_type |-> CurrentToken(p).value]
  ELSE [p |-> p, var_type |-> NoneStr]

\* parse_declaration lines 247-250: the optional initial value
decl_value(p) ==
  IF ~Dead(p) /\ CurrentIs(p, "ASSIGN")
    THEN parse_expression(advance(p))
  ELSE Ret(p, NoneNode)

\* parse_declaration lines 252-254: "More lenient semicolon handling"
decl_semi(p) ==
  IF ~Dead(p) /\ CurrentIs(p, "SEMI") THEN advance(p) ELSE p

parse_declaration(p) ==
  IF Dead(p) THEN Ret(p, NoneNode)
  ELSE IF ~HasCurrent(p) THEN Raise(p)
  ELSE IF ~HasCurrent(advance(p)) THEN Raise(advance(p))
  ELSE LET is_const == CurrentToken(p).type = "CONST"
           ident == CurrentToken(advance(p)).value
           t == decl_type(expect(advance(p), "ID", "Expected identifier in declaration").p)
           Value(v) ==
             Ret(decl_semi(v.p), IF is_const THEN ConstantDecl(ident, v.node)
                                 ELSE VariableDecl(ident, t.var_type, v.node))
       IN Bind({ Value(r) : r \in {decl_value(t.p)} })

\* parse_function_call giving up the argument list at its first ','
function_call_args_loop_stops(p, acc) == [p |-> p, nodes |-> acc]

RECURSIVE function_call_args_loop(_, _)

\* parse_function_call lines 265-267: the COMMA loop
function_call_args_loop(p, acc) ==
  IF Dead(p) THEN [p |-> p, nodes |-> acc]
  ELSE IF CurrentIs(p, "COMMA")
    THEN LET Arg(r) == function_call_args_loop(r.p, Append(acc, r.node))
         IN Bind({ Arg(r) : r \in {parse_expression(advance(p))} })
  ELSE [p |-> p, nodes |-> acc]

\* parse_function_call lines 262-267: the argument list; line 263 reads .type
\* of None at the end of the input
function_call_args(p) ==
  IF Dead(p) THEN [p |-> p, nodes |-> <<>>]
  ELSE IF ~HasCurrent(p) THEN [p |-> Raise(p).p, nodes |-> <<>>]
  ELSE IF CurrentToken(p).type # "RPAREN"
    THEN LET Arg(r) == function_call_args_loop(r.p, <<r.node>>)
         IN Bind({ Arg(r) : r \in {parse_expression(p)} })
  ELSE [p |-> p, nodes |-> <<>>]

parse_function_call(p) ==
  IF Dead(p) THEN Ret(p, NoneNode)
  ELSE IF ~HasCurrent(p) THEN Raise(p)
  ELSE LET name == CurrentToken(p).value
           e1 == expect(p, "ID", "Expected function name")
           e2 == expect(e1.p, "LPAREN", "Expected '(' after function name")
           Close(a) ==
             Ret(expect(expect(a.p, "RPAREN", "Expected ')' after function arguments").p,
                        "SEMI", "Missing ';' after function call").p,
                 FunctionCall(name, a.nodes))
       IN Bind({ Close(r) : r \in {function_call_args(e2.p)} })

\* one parameter: "param_name = self.current_token.value; self.expect('ID', ...)"
parse_param(p) ==
  IF Dead(p) THEN Ret(p, NoneNode)
  ELSE IF ~HasCurrent(p) THEN Raise(p)
  ELSE Ret(expect(p, "ID", "Expected parameter name").p,
           Parameter(CurrentToken(p).value, NoneStr))

RECURSIVE params_loop(_, _)

\* the "while ... COMMA" loop of parse_function; acc is params
params_loop(p, acc) ==
  IF Dead(p) THEN [p |-> p, nodes |-> acc]
  ELSE IF CurrentIs(p, "COMMA")
    THEN LET Param(r) == params_loop(r.p, Append(acc, r.node))
         IN Bind({ Param(r) : r \in {parse_param(advance(p))} })
  ELSE [p |-> p, nodes |-> acc]

\* parse_function lines 277-286: "if self.current_token.type != 'RPAREN'"
parse_params(p) ==
  IF Dead(p) THEN [p |-> p, nodes |-> <<>>]
  ELSE IF ~HasCurrent(p) THEN [p |-> Raise(p).p, nodes |-> <<>>]
  ELSE IF CurrentToken(p).type # "RPAREN"
    THEN LET Param(r) == params_loop(r.p, <<r.node>>)
         IN Bind({ Param(r) : r \in {parse_param(p)} })
  ELSE [p |-> p, nodes |-> <<>>]

parse_function(p) ==
  LET e1 == expect(p, "FUNC", NoneStr) IN
  IF Dead(e1.p) THEN Ret(e1.p, NoneNode)
  ELSE IF ~HasCurrent(e1.p) THEN Raise(e1.p)
  ELSE LET name == CurrentToken(e1.p).value
           e2 == expect(e1.p, "ID", "Expected function name after FUNC keyword")
           e3 == expect(e2.p, "LPAREN", "Expected '(' after function name in declaration")
           return_type == NoneStr
           Params(ps) ==
             LET Body(b) == Ret(b.p, FunctionDecl(name, ps.nodes, return_type, b.nodes))
             IN Bind({ Body(r) :
                         r \in {parse_block(
                                  expect(expect(ps.p, "RPAREN",
                                                "Expected ')' after parameters in function declaration").p,
                                         "LBRACE", "Expected '{' to start function body").p,
                                  "Expected '}' to end function body")} })
       IN Bind({ Params(r) : r \in {parse_params(e3.p)} })

parse_return(p) ==
  LET Semi(r) ==
        Ret(expect(r.p, "SEMI", "Missing ';' after return statement").p, Return(r.node))
  IN Bind({ Semi(r) : r \in {parse_expression(expect(p, "RETURN", NoneStr).p)} })

parse_import(p) ==
  LET e1 == expect(p, "IMPORT", NoneStr)
      module_token == expect(e1.p, "ID", "Expected module name after IMPORT")
  IN IF ~module_token.ok THEN Ret(module_token.p, NoneNode)
     ELSE Ret(expect(module_token.p, "SEMI", "Missing ';' after import declaration").p,
              ImportDecl(module_token.token.value))

\* parse_statement lines 66-70: a declaration, then the statement's ';'
parse_decl_statement(p) ==
  LET Semi(d) == Ret(expect(d.p, "SEMI", "Missing ';' after declaration").p, d.node)
  IN Bind({ Semi(r) : r \in {parse_declaration(p)} })

\* parse_statement lines 81-86: one token of lookahead after a leading ID
parse_id_statement(p) ==
  IF PeekIs(p, 1, "LPAREN") THEN parse_function_call(p) ELSE parse_assignment(p)

\* the else branch of parse_statement without its advance
parse_unexpected_no_advance(p) ==
  Ret([p EXCEPT !.errors =
         add_error(@, "Unexpected token type: " \o CurrentToken(p).type,
                   CurrentToken(p).lineno)],
      NoneNode)

\* parse_statement lines 87-93: no rule starts with the current token
parse_unexpected(p) ==
  Ret(advance([p EXCEPT !.errors =
                 add_error(@, "Unexpected token type: " \o CurrentToken(p).type,
                           CurrentToken(p).lineno)]),
      NoneNode)

parse_statement(p) ==
  IF Dead(p) THEN Ret(p, NoneNode)
  ELSE IF ~HasCurrent(p) THEN Ret(p, NoneNode)
  ELSE LET type == CurrentToken(p).type IN
    CASE type = "IMPORT" -> parse_import(p)
      [] type \in {"VAR", "CONST"} -> parse_decl_statement(p)
      [] type = "PRINT" -> parse_print(p)
      [] type = "IF" -> parse_if(p)
      [] type = "WHILE" -> parse_while(p)
      [] type = "FUNC" -> parse_function(p)
      [] type = "RETURN" -> parse_return(p)
      [] type = "ID" -> parse_id_statement(p)
      [] OTHER -> parse_unexpected(p)

\* the "while self.current_token and self.current_token.type != 'RBRACE'" loop of
\* a block; acc is the block's statement list. An iteration that leaves the
\* cursor where it was repeats forever.
block_loop(p, acc) ==
  IF Dead(p) THEN [p |-> p, nodes |-> acc]
  ELSE IF HasCurrent(p) /\ CurrentToken(p).type # "RBRACE"
    THEN LET Statement(r) ==
               IF ~Dead(r.p) /\ r.p.pos = p.pos
                 THEN [p |-> [r.p EXCEPT !.hang = TRUE], nodes |-> acc]
               ELSE block_loop(r.p, Append(acc, r.node))
         IN Bind({ Statement(r) : r \in {parse_statement(p)} })
  ELSE [p |-> p, nodes |-> acc]

(***************************************************************************)
(* Parser: serialization                                                   *)
(***************************************************************************)
\* data[key] = value on a Python dict
SetKey(data, key, value) ==
  [k \in DOMAIN data \cup {key} |-> IF k = key THEN value ELSE data[k]]

RECURSIVE serialize_ast(_)

\* _serialize_ast lines 323-324: a list
serialize_list(nodes) == [i \in 1..Len(nodes) |-> serialize_ast(nodes[i])]

\* Parser._serialize_ast, for a node or None
serialize_ast(node) ==
  IF IsNone(node) THEN JsonNull
  ELSE LET data == [type |-> node.cls] IN
    CASE node.cls = "Program" ->
           SetKey(data, "statements", serialize_list(node.statements))
      [] node.cls \in {"Integer", "Float", "Boolean", "String"} ->
           SetKey(data, "value", node.value)
      [] node.cls = "BinOp" ->
           SetKey(SetKey(SetKey(data, "operator", node.op),
                         "left", serialize_ast(node.left)),
                  "right", serialize_ast(node.right))
      [] node.cls = "UnaryOp" ->
           SetKey(SetKey(data, "operator", node.op),
                  "operand", serialize_ast(node.operand))
      [] node.cls = "Location" -> SetKey(data, "name", node.name)
      [] node.cls = "FunctionCall" ->
           SetKey(SetKey(data, "name", node.name),
                  "arguments", serialize_list(node.args))
      [] node.cls = "Print" -> SetKey(data, "expression", serialize_ast(node.expr))
      [] node.cls = "Assignment" ->
           SetKey(SetKey(data, "target", serialize_ast(node.location)),
                  "value", serialize_ast(node.expr))
      [] node.cls = "If" ->
           SetKey(SetKey(SetKey(data, "condition", serialize_ast(node.test)),
                         "consequence", serialize_list(node.consequence)),
                  "alternative", serialize_list(node.alternative))
      [] node.cls = "While" ->
           SetKey(SetKey(data, "condition", serialize_ast(node.test)),
                  "body", serialize_list(node.body))
      [] node.cls = "VariableDecl" ->
           SetKey(SetKey(SetKey(data, "name", node.name),
                         "type", node.var_type),
                  "initial_value", serialize_ast(node.value))
      [] node.cls = "ConstantDecl" ->
           SetKey(SetKey(data, "name", node.name),
                  "value", serialize_ast(node.value))
      [] node.cls = "FunctionDecl" ->
           SetKey(SetKey(SetKey(SetKey(data, "name", node.name),
                                "parameters", serialize_list(node.params)),
                         "return_type", node.return_type),
                  "body", serialize_list(node.body))
      [] node.cls = "Return" -> SetKey(data, "value", serialize_ast(node.expr))
      [] node.cls = "Parameter" ->
           SetKey(SetKey(data, "name", node.name), "type", node.param_type)
      [] node.cls = "ImportDecl" -> SetKey(data, "module_name", node.module_name)
      [] OTHER -> data

\* to_json serializing the AST whatever the error sink holds
to_json_result_always_ast(errs, tree) == serialize_ast(tree)

\* Parser.to_json lines 315-317, after its call of parse
to_json_result(errs, tree) ==
  IF has_errors(errs) THEN [errors |-> errs] ELSE serialize_ast(tree)

(***************************************************************************)
(* Inputs: token sequences, as the lexer (GOX_lexer.tokenize) hands them   *)
(* to the parser. A source is written as its sequence of lexemes.          *)
(***************************************************************************)
MaxLen == 3

MaxLenAll == 2

MaxStmts == 2

MaxOps == 2

Keywords ==
  [var |-> "VAR", const |-> "CONST", print |-> "PRINT", if |-> "IF", else |-> "ELSE",
   while |-> "WHILE", func |-> "FUNC", return |-> "RETURN", import |-> "IMPORT",
   true |-> "TRUE", false |-> "FALSE"]

Symbols ==
  [s \in {"(", ")", "{", "}", ";", ",", "=", "+", "-", "*", "/", "%", "//",
          "<", ">", "<=", ">=", "==", "!=", "&&", "||", "!", "^"} |->
     CASE s = "(" -> "LPAREN" [] s = ")" -> "RPAREN" [] s = "{" -> "LBRACE"
       [] s = "}" -> "RBRACE" [] s = ";" -> "SEMI" [] s = "," -> "COMMA"
       [] s = "=" -> "ASSIGN" [] s = "+" -> "PLUS" [] s = "-" -> "MINUS"
       [] s = "*" -> "TIMES" [] s = "/" -> "DIVIDE" [] s = "%" -> "MOD"
       [] s = "//" -> "INT_DIV" [] s = "<" -> "LT" [] s = ">" -> "GT"
       [] s = "<=" -> "LE" [] s = ">=" -> "GE" [] s = "==" -> "EQ"
       [] s = "!=" -> "NE" [] s = "&&" -> "LAND" [] s = "||" -> "LOR"
       [] s = "!" -> "NOT" [] s = "^" -> "DEREF"]

\* the token type of a lexeme
TypeOf(lexeme) ==
  IF lexeme \in DOMAIN Keywords THEN Keywords[lexeme]
  ELSE IF lexeme \in DOMAIN Symbols THEN Symbols[lexeme]
  ELSE IF lexeme \in {"0", "1", "2", "3", "8", "9"} THEN "INTEGER"
  ELSE IF lexeme \in {"2.5", "0.5"} THEN "FLOAT"
  ELSE IF lexeme \in {"'hi'"} THEN "STRING"
  ELSE "ID"

Tk(lexeme) == [type |-> TypeOf(lexeme), value |-> lexeme]

\* the token sequence of a source with one lexeme per line
Tokens(lexemes) ==
  [i \in 1..Len(lexemes) |->
     [type |-> TypeOf(lexemes[i]), value |-> lexemes[i], lineno |-> i]]

\* every sequence of at most n lexemes of the set
SeqsUpTo(lexemes, n) == UNION { [1..k -> lexemes] : k \in 0..n }

FuzzLexemes ==
  {"var", "print", "if", "func", "import", "x", "1", "(", ")", "{", "}", ";",
   ",", "=", "+", "*"}

AllLexemes ==
  DOMAIN Keywords \cup DOMAIN Symbols \cup {"x", "1", "2.5", "'hi'"}

\* complete statements of the grammar
Statements ==
  << <<"print", "1", ";">>,
     <<"foo", "=", "1", ";">>,
     <<"foo", "(", ")", ";">>,
     <<"foo", "(", "1", ",", "x", ")", ";">>,
     <<"var", "x", ";">>,
     <<"var", "x", "int", "=", "1", ";">>,
     <<"const", "x", "=", "2.5", ";">>,
     <<"import", "m", ";">>,
     <<"if", "x", "<", "1", "{", "print", "'hi'", ";", "}">>,
     <<"if", "true", "{", "x", "=", "1", ";", "}", "else", "{", "foo", "(", ")", ";", "}">>,
     <<"while", "x", "{", "x", "=", "x", "-", "1", ";", "}">>,
     <<"func", "f", "(", ")", "{", "return", "1", ";", "}">>,
     <<"func", "f", "(", "a", ",", "b", ")", "{", "return", "a", "+", "b", ";", "}">>,
     <<"return", "-", "x", ";">>,
     <<"print", "(", "1", "+", "2", ")", "*", "3", ";">>,
     <<"x", "=", "foo", "(", "!", "false", ")", ";">> >>

\* statements with something missing or something too much
Malformed ==
  << <<"var", "x", ";", ";">>,
     <<"const", "x", "=", "1", ";", ";">>,
     <<"x", "=", "1">>,
     <<"if", "1", "{">>,
     <<"if", "x", "{", "print", "1", ";">>,
     <<"while", "x", "{", ";", "}">>,
     <<"x", "=", ";">>,
     <<"import", ";">>,
     <<")">>,
     <<"foo", "(", "1">> >>

\* what programs are put together from
Fragments == Statements \o Malformed

RECURSIVE Flatten(_)
Flatten(ss) == IF ss = <<>> THEN <<>> ELSE Head(ss) \o Flatten(Tail(ss))

\* the sources made of at most MaxStmts fragments
ProgramInputs ==
  { Flatten([i \in 1..Len(c) |-> Fragments[c[i]]]) :
      c \in SeqsUpTo(DOMAIN Fragments, MaxStmts) }

BinaryLexemes ==
  {"||", "&&", "<", ">", "<=", ">=", "==", "!=", "+", "-", "*", "/", "%", "//"}

Operands == { <<"1", "2", "3", "8", "9">>, <<"8", "3", "2", "1", "0">> }

\* operand op operand ... with the n operators of ops
Chain(operands, ops, n) ==
  [i \in 1..(2 * n + 1) |-> IF i % 2 = 1 THEN operands[(i + 1) \div 2] ELSE ops[i \div 2]]

\* "print a op b op c ... ;" for every chain of at most MaxOps binary operators
ChainInputs ==
  { <<"print">> \o Chain(o, ops, Len(ops)) \o <<";">> :
      o \in Operands, ops \in SeqsUpTo(BinaryLexemes, MaxOps) }

Expressions ==
  { <<"1">>, <<"x">>, <<"1", "+", "2">>, <<"foo", "(", ")">>, <<"-", "x">> }

\* "x = e" without its ';', then "if c { body" without its '}'
TwoErrorInputs ==
  { <<"x", "=">> \o e \o <<"if">> \o c \o <<"{">> \o body :
      e \in Expressions, c \in Expressions,
      body \in {<<>>} \cup { Statements[i] : i \in DOMAIN Statements } }

Inputs ==
  SeqsUpTo(FuzzLexemes, MaxLen) \cup SeqsUpTo(AllLexemes, MaxLenAll)
    \cup ProgramInputs \cup ChainInputs \cup TwoErrorInputs

(***************************************************************************)
(* The runs: Parser.to_json on a new parser, and the command-line driver   *)
(***************************************************************************)
NoDoc == [absent |-> TRUE]

NoExit == -1

Init ==
  /\ tokens \in { Tokens(s) : s \in Inputs }
  /\ pos = 0
  /\ errors = <<>>
  /\ statements = <<>>
  /\ pc = "new"
  /\ caller = "none"
  /\ ast = NoneNode
  /\ json_ast = NoneNode
  /\ doc = NoDoc
  /\ exitcode = NoExit

\* the parser object of the state
Self == [pos |-> pos, errors |-> errors, exc |-> FALSE, hang |-> FALSE]

\* "while self.current_token" of Parser.parse
LoopCond(p) == HasCurrent(p)

\* __main__ lines 413-416: a new parser, and parser.parse() is entered
MainParse ==
  /\ pc = "new"
  /\ pc' = "parse"
  /\ caller' = "main"
  /\ UNCHANGED <<tokens, pos, errors, statements, ast, json_ast, doc, exitcode>>

\* Parser.to_json on a new parser: parse() is entered
ToJsonParse ==
  /\ pc = "new"
  /\ pc' = "parse"
  /\ caller' = "to_json"
  /\ UNCHANGED <<tokens, pos, errors, statements, ast, json_ast, doc, exitcode>>

\* one iteration of the loop of Parser.parse (lines 47-53)
ParseIteration ==
  /\ pc = "parse"
  /\ LoopCond(Self)
  /\ LET Statement(r) ==
       /\ errors' = r.p.errors
       /\ IF r.p.exc
            THEN /\ pc' = "raised"
                 /\ pos' = r.p.pos
                 /\ UNCHANGED statements
          ELSE IF r.p.hang
            THEN /\ pc' = "hang"
                 /\ pos' = r.p.pos
                 /\ UNCHANGED statements
          ELSE IF ~IsNone(r.node)
            THEN /\ statements' = Append(statements, r.node)
                 /\ pos' = r.p.pos
                 /\ pc' = IF r.p.pos = pos THEN "hang" ELSE "parse"
          ELSE /\ pos' = advance(r.p).pos
               /\ pc' = "parse"
               /\ UNCHANGED statements
     IN \E r \in {parse_statement(Self)} : Statement(r)
  /\ UNCHANGED <<tokens, caller, ast, json_ast, doc, exitcode>>

\* Parser.parse line 56: the loop is left and the Program is returned, to
\* "ast" of __main__ (line 416) or to "ast" of to_json (line 314)
ParseReturn ==
  /\ pc = "parse"
  /\ ~LoopCond(Self)
  /\ IF caller = "main"
       THEN /\ ast' = Program(statements)
            /\ pc' = "main_check"
            /\ UNCHANGED json_ast
     ELSE /\ json_ast' = Program(statements)
          /\ pc' = "to_json_check"
          /\ UNCHANGED ast
  /\ UNCHANGED <<tokens, pos, errors, statements, caller, doc, exitcode>>

\* __main__ lines 422-428: exit 1 on diagnostics, otherwise save_ast_to_json,
\* which calls to_json, which calls parse() again on the same parser
MainCheck ==
  /\ pc = "main_check"
  /\ IF has_errors(errors)
       THEN /\ exitcode' = 1
            /\ pc' = "done"
            /\ UNCHANGED <<statements, caller>>
     ELSE /\ caller' = "save"
          /\ pc' = "parse"
          /\ statements' = <<>>
          /\ UNCHANGED exitcode
  /\ UNCHANGED <<tokens, pos, errors, ast, json_ast, doc>>

\* Parser.to_json lines 315-317 (and save_ast_to_json writing the result)
ToJsonReturn ==
  /\ pc = "to_json_check"
  /\ doc' = to_json_result(errors, json_ast)
  /\ pc' = "done"
  /\ exitcode' = IF caller = "save" THEN 0 ELSE exitcode
  /\ UNCHANGED <<tokens, pos, errors, statements, caller, ast, json_ast>>

\* __main__ lines 434-436: "except Exception" prints the error and exits 1
MainExcept ==
  /\ pc = "raised"
  /\ caller \in {"main", "save"}
  /\ exitcode' = 1
  /\ pc' = "done"
  /\ UNCHANGED <<tokens, pos, errors, statements, caller, ast, json_ast, doc>>

Next ==
  \/ MainParse
  \/ ToJsonParse
  \/ ParseIteration
  \/ ParseReturn
  \/ MainCheck
  \/ ToJsonReturn
  \/ MainExcept

Spec == Init /\ [][Next]_vars

MaxLiveLen == 2

\* the inputs of the runs that are checked to end: the short token sequences,
\* and the statements, whole or malformed, alone and in pairs
LiveInputs ==
  SeqsUpTo(FuzzLexemes, MaxLiveLen)
    \cup { Fragments[i] : i \in DOMAIN Fragments }
    \cup { Fragments[i] \o Fragments[j] : i, j \in DOMAIN Fragments }

LiveInit ==
  /\ tokens \in { Tokens(s) : s \in LiveInputs }
  /\ pos = 0
  /\ errors = <<>>
  /\ statements = <<>>
  /\ pc = "new"
  /\ caller = "none"
  /\ ast = NoneNode
  /\ json_ast = NoneNode
  /\ doc = NoDoc
  /\ exitcode = NoExit

\* a run never stops half-way: the program is sequential, and a step that can
\* be taken is taken
FairSpec == LiveInit /\ [][Next]_vars /\ WF_vars(Next)

(***************************************************************************)
(* The grammar of the language (program ::= statement*, ...), as a         *)
(* recognizer that does not share anything with the parser: G_x(i) is the  *)
(* set of the j such that the tokens i .. j-1 derive x.                    *)
(***************************************************************************)
TypeAt(i) == IF i \in 1..Len(tokens) THEN tokens[i].type ELSE "<eof>"

Lexemes == [i \in 1..Len(tokens) |-> tokens[i].value]

\* the j+1 such that j is in ends and token j has the type
Then(ends, type) == { j + 1 : j \in { k \in ends : TypeAt(k) = type } }

RECURSIVE G_expression(_), G_layer(_, _), G_unary(_), G_primary(_), G_arguments(_),
          G_statement(_), G_statements(_)

LayerOps(layer) ==
  CASE layer = 1 -> {"LOR"}
    [] layer = 2 -> {"LAND"}
    [] layer = 3 -> {"LT", "GT", "LE", "GE", "EQ", "NE"}
    [] layer = 4 -> {"PLUS", "MINUS"}
    [] layer = 5 -> {"TIMES", "DIVIDE", "MOD", "INT_DIV"}

\* logic_or (layer 1) ... factor (layer 5): operand (op operand)*
G_layer(layer, i) ==
  LET operand == IF layer = 5 THEN G_unary(i) ELSE G_layer(layer + 1, i)
  IN operand \cup
     UNION { G_layer(layer, j + 1) : j \in { k \in operand : TypeAt(k) \in LayerOps(layer) } }

G_expression(i) == G_layer(1, i)

G_unary(i) ==
  G_primary(i) \cup
  (IF TypeAt(i) \in {"PLUS", "MINUS", "NOT", "DEREF"} THEN G_primary(i + 1) ELSE {})

\* expression (',' expression)*
G_arguments(i) ==
  LET first == G_expression(i)
  IN first \cup UNION { G_arguments(j + 1) : j \in { k \in first : TypeAt(k) = "COMMA" } }

G_primary(i) ==
  CASE TypeAt(i) \in {"INTEGER", "FLOAT", "STRING", "TRUE", "FALSE"} -> {i + 1}
    [] TypeAt(i) = "LPAREN" -> Then(G_expression(i + 1), "RPAREN")
    [] TypeAt(i) = "ID" ->
         {i + 1} \cup
         (IF TypeAt(i + 1) = "LPAREN"
            THEN Then({i + 2} \cup G_arguments(i + 2), "RPAREN") ELSE {})
    [] OTHER -> {}

\* '{' statement* '}'
G_block(i) == IF TypeAt(i) = "LBRACE" THEN Then(G_statements(i + 1), "RBRACE") ELSE {}

\* ID (',' ID)*
RECURSIVE G_parameters(_)
G_parameters(i) ==
  IF TypeAt(i) = "ID"
    THEN {i + 1} \cup (IF TypeAt(i + 1) = "COMMA" THEN G_parameters(i + 2) ELSE {})
  ELSE {}

\* ('var'|'const') ID [ID] ['=' expression]
G_decl(i) ==
  IF TypeAt(i) \in {"VAR", "CONST"} /\ TypeAt(i + 1) = "ID"
    THEN LET typed == {i + 2} \cup (IF TypeAt(i + 2) = "ID" THEN {i + 3} ELSE {})
         IN typed \cup
            UNION { G_expression(j + 1) : j \in { k \in typed : TypeAt(k) = "ASSIGN" } }
  ELSE {}

G_statement(i) ==
  CASE TypeAt(i) = "IMPORT" -> Then(Then({i + 1}, "ID"), "SEMI")
    [] TypeAt(i) \in {"VAR", "CONST"} -> Then(G_decl(i), "SEMI")
    [] TypeAt(i) \in {"PRINT", "RETURN"} -> Then(G_expression(i + 1), "SEMI")
    [] TypeAt(i) = "IF" ->
         LET consequence == UNION { G_block(j) : j \in G_expression(i + 1) }
         IN consequence \cup
            UNION { G_block(j + 1) : j \in { k \in consequence : TypeAt(k) = "ELSE" } }
    [] TypeAt(i) = "WHILE" -> UNION { G_block(j) : j \in G_expression(i + 1) }
    [] TypeAt(i) = "FUNC" ->
         IF TypeAt(i + 1) = "ID" /\ TypeAt(i + 2) = "LPAREN"
           THEN UNION { G_block(j) : j \in Then({i + 3} \cup G_parameters(i + 3), "RPAREN") }
         ELSE {}
    [] TypeAt(i) = "ID" ->
         \* call ';' | location '=' expression ';'
         (IF TypeAt(i + 1) = "LPAREN"
            THEN Then(Then({i + 2} \cup G_arguments(i + 2), "RPAREN"), "SEMI") ELSE {})
         \cup
         (IF TypeAt(i + 1) = "ASSIGN" THEN Then(G_expression(i + 2), "SEMI") ELSE {})
    [] OTHER -> {}

\* statement*
G_statements(i) == {i} \cup UNION { G_statements(j) : j \in G_statement(i) }

\* the ways to cut the tokens from i on into top-level statements: each the
\* sequence of the positions where its statements begin
RECURSIVE G_program(_)
G_program(i) ==
  IF i = Len(tokens) + 1 THEN {<<>>}
  ELSE UNION { { <<i>> \o rest : rest \in G_program(j) } : j \in G_statement(i) }

\* the tokens are a program of the grammar
Derivable == G_program(1) # {}

\* the class of the node that the statement beginning with a token of the type stands for
ClassOfStatement(type, next) ==
  CASE type = "IMPORT" -> "ImportDecl" [] type = "VAR" -> "VariableDecl"
    [] type = "CONST" -> "ConstantDecl" [] type = "PRINT" -> "Print"
    [] type = "IF" -> "If" [] type = "WHILE" -> "While"
    [] type = "FUNC" -> "FunctionDecl" [] type = "RETURN" -> "Return"
    [] type = "ID" -> IF next = "LPAREN" THEN "FunctionCall" ELSE "Assignment"
    [] OTHER -> "NoneType"

(***************************************************************************)
(* The claims                                                              *)
(***************************************************************************)
\* Parser.parse, called on the new parser, has returned its Program
ParseReturned ==
  \/ pc = "main_check"
  \/ pc = "to_json_check" /\ caller = "to_json"

\* the Program that call returned
Parsed == IF caller = "main" THEN ast ELSE json_ast

\* the statements list has one entry per top-level statement, in source order
OneEntryPerStatement(stmts) ==
  \E cut \in G_program(1) :
    /\ Len(stmts) = Len(cut)
    /\ \A k \in 1..Len(cut) :
         stmts[k].cls = ClassOfStatement(TypeAt(cut[k]), TypeAt(cut[k] + 1))

\* C1: when the tokens are a program of the grammar, parse records no
\* diagnostic and returns a Program with one entry per top-level statement of
\* the source, in source order.
C1_ValidProgramParsesClean ==
  (ParseReturned /\ Derivable) =>
     /\ errors = <<>>
     /\ OneEntryPerStatement(Parsed.statements)

\* C1 holds of the code for the programs without declarations
C1_WithoutDeclarations ==
  (ParseReturned /\ Derivable /\ \A i \in 1..Len(tokens) : TypeAt(i) \notin {"VAR", "CONST"}) =>
     /\ errors = <<>>
     /\ OneEntryPerStatement(Parsed.statements)

\* C2: on a command-line run whose parse recorded no diagnostic, the document
\* written is the serialization of the AST of the file's tokens: a Program
\* with one serialized entry per statement the parse returned.
C2_SavedDocumentIsTheAst ==
  (pc = "done" /\ caller = "save") =>
     /\ doc.type = "Program"
     /\ Len(doc.statements) = Len(ast.statements)
     /\ doc = serialize_ast(ast)

\* C3: parse completes normally on every token sequence: no exception leaves it.
C3_ParseNeverRaises == pc # "raised"

\* Parser.parse has ended, by returning or by raising
ParseEnded == pc \in {"main_check", "to_json_check", "raised", "done"}

\* a parser with its cursor after i tokens
ParserAt(i) == [pos |-> i, errors |-> <<>>, exc |-> FALSE, hang |-> FALSE]

\* every call of parse_statement with a current token consumes a token, and no
\* block loop under it iterates without progress
EveryStatementConsumes ==
  \A i \in 0..(Len(tokens) - 1) :
    LET r == parse_statement(ParserAt(i)) IN ~r.p.hang /\ r.p.pos > i

\* C4: parse terminates on every token sequence, with the cursor at the end
\* of the tokens; every iteration of its loop moves the cursor forward, and
\* every call of parse_statement with a current token consumes at least one
\* token, so that no block loop iterates without progress.
C4_ParseTerminatesAtEnd ==
  /\ <>ParseEnded
  /\ [](ParseEnded => ~HasCurrent(Self))
  /\ [][ParseIteration => pos' > pos]_vars
  /\ [](pc = "new" => EveryStatementConsumes)

\* parse has returned after a recovery inside the block of a while statement
C4_Witness ==
  /\ ParseReturned
  /\ Lexemes = <<"while", "x", "{", ";", "}">>
  /\ pos = Len(tokens)
  /\ Len(errors) = 1
  /\ Len(statements) = 1

\* C5: when parse returns on tokens that are not a program of the grammar, the
\* error sink holds at least one diagnostic.
C5_MalformedIsDiagnosed == (ParseReturned /\ ~Derivable) => has_errors(errors)

\* C6: to_json yields the errors document, and serializes nothing, when the
\* error sink holds a diagnostic after parsing, and otherwise the Program
\* document, which has no "errors" key; the command-line run writes no
\* document when the sink holds a diagnostic.
C6_ToJsonShapes ==
  /\ doc # NoDoc =>
       IF has_errors(errors)
         THEN DOMAIN doc = {"errors"} /\ doc.errors = errors
       ELSE /\ "errors" \notin DOMAIN doc
            /\ doc.type = "Program"
            /\ doc = serialize_ast(json_ast)
  /\ (has_errors(errors) /\ caller \in {"main", "save"}) => doc = NoDoc

\* to_json has returned the errors document although the parse built statements
C6_Witness ==
  /\ pc = "done"
  /\ caller = "to_json"
  /\ has_errors(errors)
  /\ Len(json_ast.statements) > 0
  /\ DOMAIN doc = {"errors"}

\* the "type" field of the mapping of the node, and of the mappings of the
\* nodes under it, is the name of the variant
RECURSIVE TypeTagOk(_)
TypeTagsOk(nodes) == \A i \in 1..Len(nodes) : TypeTagOk(nodes[i])

TypeTagOk(node) ==
  \/ IsNone(node)
  \/ /\ serialize_ast(node).type = node.cls
     /\ CASE node.cls = "Program" -> TypeTagsOk(node.statements)
          [] node.cls = "BinOp" -> TypeTagOk(node.left) /\ TypeTagOk(node.right)
          [] node.cls = "UnaryOp" -> TypeTagOk(node.operand)
          [] node.cls = "FunctionCall" -> TypeTagsOk(node.args)
          [] node.cls \in {"Print", "Return"} -> TypeTagOk(node.expr)
          [] node.cls = "Assignment" -> TypeTagOk(node.location) /\ TypeTagOk(node.expr)
          [] node.cls = "If" ->
               /\ TypeTagOk(node.test)
               /\ TypeTagsOk(node.consequence)
               /\ TypeTagsOk(node.alternative)
          [] node.cls = "While" -> TypeTagOk(node.test) /\ TypeTagsOk(node.body)
          [] node.cls \in {"VariableDecl", "ConstantDecl"} -> TypeTagOk(node.value)
          [] node.cls = "FunctionDecl" -> TypeTagsOk(node.params) /\ TypeTagsOk(node.body)
          [] OTHER -> TRUE

\* C7: for every node of an AST that parse returns, of whatever variant, the
\* mapping _serialize_ast produces has a "type" field equal to the name of the
\* node's variant.
C7_TypeFieldIsVariantName == ParseReturned => TypeTagOk(Parsed)

\* C7 holds of the code for the ASTs without VariableDecl and Parameter nodes
C7_WithoutDeclaredTypes ==
  (ParseReturned /\ \A i \in 1..Len(tokens) : TypeAt(i) \notin {"VAR", "FUNC"}) =>
     TypeTagOk(Parsed)

\* the line of the first 'if' of the tokens
FirstIf == CHOOSE i \in 1..Len(tokens) : TypeAt(i) = "IF" /\ \A j \in 1..(i - 1) : TypeAt(j) # "IF"

\* the diagnostics are in the order of the places in the tokens they were met at
InDetectionOrder(errs) ==
  \A i, j \in 1..Len(errs) :
    i < j => \/ errs[j].line = EndOfFile
             \/ errs[i].line # EndOfFile /\ errs[i].line <= errs[j].line

\* C8: on an assignment without its ';' followed by an if block that is never
\* closed, parse does not raise and does not stop at the first diagnostic: it
\* returns with at least two distinct diagnostics in the order the errors are
\* met, the missing ';' (at the 'if') first and the missing '}' (at the end of
\* file) last, and with both statements built.
C8_TwoErrorsInOrder ==
  Lexemes \in TwoErrorInputs =>
    /\ pc # "raised"
    /\ ParseReturned =>
         /\ Len(errors) >= 2
         /\ errors[1] = [message |-> "Missing ';' after assignment", line |-> FirstIf]
         /\ errors[Len(errors)] =
              [message |-> "Missing '}' at the end of if block", line |-> EndOfFile]
         /\ InDetectionOrder(errors)
         /\ Len(Parsed.statements) = 2
         /\ Parsed.statements[1].cls = "Assignment"
         /\ Parsed.statements[2].cls = "If"

\* parse has returned on "x = 1 if x { print 1 ;" with two diagnostics
C8_Witness ==
  /\ ParseReturned
  /\ Lexemes = <<"x", "=", "1", "if", "x", "{", "print", "1", ";">>
  /\ Len(errors) = 2
  /\ errors[1].line = 4
  /\ errors[2].line = EndOfFile

\* at every token, the node parse_statement builds is of the class that the
\* type of the token selects, with the type of the next token for an ID
DispatchByLeadingToken ==
  \A i \in 0..(Len(tokens) - 1) :
    LET r == parse_statement(ParserAt(i)) IN
    (~r.p.exc /\ ~IsNone(r.node)) =>
       r.node.cls = ClassOfStatement(TypeAt(i + 1), TypeAt(i + 2))

\* C9: the statement rule is selected by the type of the leading token, and
\* for a leading ID by the type of the one token after it: "foo ( ) ;" parses
\* to FunctionCall(foo, []) and "foo = 1 ;" to Assignment(Location(foo),
\* Integer(1)).
C9_OneTokenLookahead ==
  /\ pc = "new" => DispatchByLeadingToken
  /\ (ParseReturned /\ Lexemes = <<"foo", "(", ")", ";">>) =>
       errors = <<>> /\ Parsed.statements = <<FunctionCall("foo", <<>>)>>
  /\ (ParseReturned /\ Lexemes = <<"foo", "=", "1", ";">>) =>
       errors = <<>> /\ Parsed.statements = <<Assignment(Location("foo"), Integer(1))>>

\* parse has returned the FunctionCall statement of "foo ( ) ;"
C9_Witness ==
  /\ ParseReturned
  /\ Lexemes = <<"foo", "(", ")", ";">>
  /\ Len(statements) = 1
  /\ statements[1].cls = "FunctionCall"

\* the precedence layer of a binary operator, 1 the loosest
Precedence(op) ==
  CASE op = "||" -> 1
    [] op = "&&" -> 2
    [] op \in {"<", ">", "<=", ">=", "==", "!="} -> 3
    [] op \in {"+", "-"} -> 4
    [] op \in {"*", "/", "%", "//"} -> 5
    [] OTHER -> 0

\* the tokens are "print" operand (op operand)* ";" with integer operands
IsChain ==
  /\ Len(tokens) >= 3
  /\ Len(tokens) % 2 = 1
  /\ TypeAt(1) = "PRINT"
  /\ TypeAt(Len(tokens)) = "SEMI"
  /\ \A i \in 2..(Len(tokens) - 1) :
       IF i % 2 = 0 THEN TypeAt(i) = "INTEGER" ELSE Precedence(tokens[i].value) > 0

\* the operators of the expression, left to right
RECURSIVE Operators(_)
Operators(node) ==
  IF node.cls = "BinOp" THEN Operators(node.left) \o <<node.op>> \o Operators(node.right)
  ELSE <<>>

\* the integer operands of the expression, left to right
RECURSIVE Leaves(_)
Leaves(node) ==
  IF node.cls = "BinOp" THEN Leaves(node.left) \o Leaves(node.right)
  ELSE IF node.cls = "Integer" THEN <<node.value>>
  ELSE <<-1>>

\* the operator is not looser than the operator of the node it is a child of
NotLooser(child, op) == child.cls = "BinOp" => Precedence(child.op) >= Precedence(op)

\* no operator of the expression has an operator of a looser layer as a child
RECURSIVE Layered(_)
Layered(node) ==
  node.cls = "BinOp" =>
    /\ Layered(node.left)
    /\ Layered(node.right)
    /\ NotLooser(node.left, node.op)
    /\ NotLooser(node.right, node.op)

\* C10: in a chain of binary operators, an operator of a tighter layer next
\* to one of a looser layer becomes the child: the tree has the operands and
\* operators of the tokens in their order and no operator has a looser one as
\* its child; "1 + 2 * 3" parses to BinOp(+, 1, BinOp(*, 2, 3)).
C10_PrecedenceLayering ==
  /\ (ParseReturned /\ IsChain) =>
       /\ errors = <<>>
       /\ Len(Parsed.statements) = 1
       /\ Parsed.statements[1].cls = "Print"
       /\ LET e == Parsed.statements[1].expr IN
            /\ Leaves(e) = [i \in 1..((Len(tokens) - 1) \div 2) |-> IntOf(tokens[2 * i].value)]
            /\ Operators(e) = [i \in 1..((Len(tokens) - 3) \div 2) |-> tokens[2 * i + 1].value]
            /\ Layered(e)
  /\ (ParseReturned /\ Lexemes = <<"print", "1", "+", "2", "*", "3", ";">>) =>
       Parsed.statements =
         <<PrintStmt(BinOp("+", Integer(1), BinOp("*", Integer(2), Integer(3))))>>

\* parse has returned the tree of "print 1 + 2 * 3 ;"
C10_Witness ==
  /\ ParseReturned
  /\ Lexemes = <<"print", "1", "+", "2", "*", "3", ";">>
  /\ statements[1].expr.op = "+"
  /\ statements[1].expr.right.op = "*"

\* no operator of the expression has an operator of its own layer, or of a
\* looser one, as its right operand
RECURSIVE LeftAssociated(_)
LeftAssociated(node) ==
  node.cls = "BinOp" =>
    /\ LeftAssociated(node.left)
    /\ LeftAssociated(node.right)
    /\ node.right.cls = "BinOp" => Precedence(node.right.op) > Precedence(node.op)

\* C11: a chain of binary operators of one layer is parsed left-associatively:
\* "a op1 b op2 c" yields BinOp(op2, BinOp(op1, a, b), c), in longer chains no
\* operator has one of its own layer as its right operand, and "8 - 3 - 2"
\* parses to BinOp(-, BinOp(-, Integer(8), Integer(3)), Integer(2)).
C11_LeftAssociative ==
  /\ (ParseReturned /\ IsChain) =>
       /\ errors = <<>>
       /\ Len(Parsed.statements) = 1
       /\ LET e == Parsed.statements[1].expr IN
            /\ LeftAssociated(e)
            /\ Operators(e) = [i \in 1..((Len(tokens) - 3) \div 2) |-> tokens[2 * i + 1].value]
            /\ (/\ Len(tokens) = 7
                /\ Precedence(tokens[3].value) = Precedence(tokens[5].value)) =>
                 e = BinOp(tokens[5].value,
                           BinOp(tokens[3].value, Integer(IntOf(tokens[2].value)),
                                 Integer(IntOf(tokens[4].value))),
                           Integer(IntOf(tokens[6].value)))
  /\ (ParseReturned /\ Lexemes = <<"print", "8", "-", "3", "-", "2", ";">>) =>
       Parsed.statements =
         <<PrintStmt(BinOp("-", BinOp("-", Integer(8), Integer(3)), Integer(2)))>>

\* parse has returned the tree of "print 8 - 3 - 2 ;"
C11_Witness ==
  /\ ParseReturned
  /\ Lexemes = <<"print", "8", "-", "3", "-", "2", ";">>
  /\ statements[1].expr.op = "-"
  /\ statements[1].expr.left.op = "-"
  /\ statements[1].expr.right = Integer(2)

\* the loop of parse is at a token that starts no statement rule
AtUnexpectedToken ==
  /\ pc = "parse"
  /\ HasCurrent(Self)
  /\ ClassOfStatement(CurrentToken(Self).type, "<eof>") = "NoneType"

\* C12: when the loop of parse is at a token that starts no statement rule,
\* the iteration records exactly one "unexpected token" diagnostic, at the
\* line of the token, and moves the cursor by exactly one token: the token
\* after the offending one, when there is one, is the next current token.
C12_RecoveryAdvancesOneToken ==
  [][(AtUnexpectedToken /\ ParseIteration) =>
       /\ errors' = Append(errors,
                           [message |-> "Unexpected token type: " \o CurrentToken(Self).type,
                            line |-> CurrentToken(Self).lineno])
       /\ statements' = statements
       /\ IF pos + 1 < Len(tokens) THEN pos' = pos + 1 ELSE pos' >= Len(tokens)]_vars

\* what the code does: the diagnostic is recorded, and the cursor moves by two
C12_RecoverySkipsTwoTokens ==
  [][(AtUnexpectedToken /\ ParseIteration) =>
       /\ errors' = Append(errors,
                           [message |-> "Unexpected token type: " \o CurrentToken(Self).type,
                            line |-> CurrentToken(Self).lineno])
       /\ statements' = statements
       /\ pos' = pos + 2]_vars

\* the token types and messages expect is called with, and the error sinks it
\* is called in
ExpectTypes == {"SEMI", "ID", "LPAREN", "RBRACE"}

ExpectMessages == {NoneStr, "Missing ';' after assignment"}

ExpectSinks == {<<>>, <<[message |-> "Expected ID", line |-> 1]>>}

\* expect(token_type, msg) called with the cursor after i tokens and the sink errs
ExpectContract(i, token_type, msg, errs) ==
  LET p == [pos |-> i, errors |-> errs, exc |-> FALSE, hang |-> FALSE]
      e == expect(p, token_type, msg)
  IN IF i < Len(tokens) /\ tokens[i + 1].type = token_type
       THEN /\ e.ok
            /\ e.token = tokens[i + 1]
            /\ e.p = [p EXCEPT !.pos = i + 1]
     ELSE /\ ~e.ok
          /\ e.token = NoneNode
          /\ e.p = [p EXCEPT !.errors =
                      Append(errs,
                             [message |-> IF msg = NoneStr THEN "Expected " \o token_type
                                          ELSE msg,
                              line |-> IF i < Len(tokens) THEN tokens[i + 1].lineno
                                       ELSE EndOfFile])]

\* C13: expect(token_type, msg), at every cursor position: when the current
\* token has the type, the cursor advances by one, the token is returned and
\* the error sink is unchanged; otherwise one diagnostic (msg or the default
\* message, at the line of the current token or at the end-of-file marker) is
\* appended, the cursor is unchanged and the failure marker is returned.
C13_ExpectContract ==
  pc = "new" =>
    \A i \in 0..Len(tokens), token_type \in ExpectTypes,
       msg \in ExpectMessages, errs \in ExpectSinks :
      ExpectContract(i, token_type, msg, errs)

\* parse has returned on "print 1": the expect of PRINT consumed the token,
\* the expect of the ';' failed at the end of the tokens
C13_Witness ==
  /\ ParseReturned
  /\ Lexemes = <<"print", "1">>
  /\ pos = 2
  /\ errors = <<[message |-> "Missing ';' after print statement", line |-> EndOfFile]>>
  /\ Len(statements) = 1

\* a run of tokens "ID (" begins after i tokens
CallBeginsAt(i) == TypeAt(i + 1) = "ID" /\ TypeAt(i + 2) = "LPAREN"

\* on the call beginning after i tokens, the statement path and the
\* expression path build the same node with the same diagnostics and leave the
\* cursor at the same place, the statement path then expecting the ';'
CallPathsAgree(i) ==
  LET statement == parse_function_call(ParserAt(i))
      expression == parse_primary(ParserAt(i))
  IN /\ ~statement.p.hang /\ ~expression.p.hang
     /\ statement.p.exc = expression.p.exc
     /\ statement.node = expression.node
     /\ IF expression.p.exc
          THEN statement.p = expression.p
        ELSE /\ expression.node.cls = "FunctionCall"
             /\ expression.node.name = tokens[i + 1].value
             /\ statement.p =
                  expect(expression.p, "SEMI", "Missing ';' after function call").p

\* C14: on every run of tokens starting "ID (", parse_function_call and the ID
\* branch of parse_primary build the same FunctionCall(name, args), record the
\* same diagnostics for the arguments and the ')', and leave the cursor at the
\* same position after the ')'; the statement path differs only by expecting
\* the ';' after it.
C14_CallPathsAgree ==
  pc = "new" => \A i \in 0..(Len(tokens) - 2) : CallBeginsAt(i) => CallPathsAgree(i)

\* parse has returned the call statement "foo ( 1 , x ) ;", and the expression
\* path builds the same node from the same tokens
C14_Witness ==
  /\ ParseReturned
  /\ Lexemes = <<"foo", "(", "1", ",", "x", ")", ";">>
  /\ errors = <<>>
  /\ Len(statements) = 1
  /\ statements[1].cls = "FunctionCall"
  /\ Len(statements[1].args) = 2
  /\ parse_primary(ParserAt(0)).node = statements[1]
  /\ parse_primary(ParserAt(0)).p.pos = 6

====
